---- MODULE Spec2Model ----
(***************************************************************************)
(* HelloWorkBot: the runner of main.py (robots check, ATS authentication,  *)
(* page loop, offer loop, prepare-only path) and the Notion reconciliation *)
(* of notion_client.py (query by link or title, then create).              *)
(*                                                                         *)
(* Python strings are sequences of one-character strings, so that the      *)
(* Notion "contains" filter is a real substring test.  Python's None is    *)
(* the distinguished value None below.  The remote services (robots.txt,   *)
(* search page, ATS API, Notion API, OpenAI) answer nondeterministically.  *)
(* The local disk is assumed to accept every write (os.makedirs, open and  *)
(* json.dump succeed); a results file may be missing or corrupt on read.   *)
(***************************************************************************)
EXTENDS Integers, Sequences, FiniteSets, TLC

\* ---------------------------------------------------------------- bounds
MaxPages == 2      \* largest `pages` argument of run()
MaxItems == 2      \* most offer containers on one search page
MaxContainers == 2 \* most offer containers the site serves during one run
MaxStore == 2      \* most Notion pages created in the direct-call specification

\* ---------------------------------------------------------------- values
None == <<"None">>
Truthy(v) == v # None /\ v # <<>>

Link1 == <<"1">>
Link2 == <<"2">>
Links == {Link1, Link2}
SourceTag == <<"h", "w">>
SourceDefault == <<"s", "c">>
SansTitre == <<"S", "a", "n", "s", " ", "t", "i", "t", "r", "e">>
CV_FR_URL == <<"f", "r">>
CV_ES_URL == <<"e", "s">>
Jwt == <<"j">>
CompanyName == <<"c">>
DateText == <<"d">>

Range(s) == {s[i] : i \in DOMAIN s}
SeqsUpTo(S, n) == UNION {[1..k -> S] : k \in 0..n}
Last(s) == s[Len(s)]

\* str.__contains__ / Notion's "contains" filter: needle is a substring of hay
Contains(hay, needle) ==
    \E i \in 0..(Len(hay) - Len(needle)) : SubSeq(hay, i + 1, i + Len(needle)) = needle

NetOutcomes == {"ok", "conn_error", "http_error"}
ExcOf(out) == IF out = "conn_error" THEN "ConnectionError" ELSE "HTTPError"

\* ------------------------------------------------------- notion_client.py
EmptyProps == [k \in {} |-> <<>>]

\* mutant: the Link filter is left out of the query
QueryFilters_titleOnly(link, title) ==
    IF Truthy(title) THEN {"Title"} ELSE {}

\* mutant: the Title filter is used only when there is no link
QueryFilters_linkFirst(link, title) ==
    IF Truthy(link) THEN {"Link"} ELSE IF Truthy(title) THEN {"Title"} ELSE {}

\* which of the two filters the query carries
QueryFilters(link, title) ==
    (IF Truthy(link) THEN {"Link"} ELSE {}) \cup (IF Truthy(title) THEN {"Title"} ELSE {})

\* the Notion database's answer to a filter (one filter, or the OR of both)
PageMatches(props, filters, link, title) ==
    \/ "Link" \in filters /\ "Link" \in DOMAIN props /\ props["Link"] = link
    \/ "Title" \in filters /\ Contains(props["Title"], title)

query_database_by_link_or_title(st, link, title, qo) ==
    LET filters == QueryFilters(link, title) IN
    IF filters = {}
    THEN [raised |-> FALSE, exc |-> "", results |-> {}, requests |-> <<>>]
    ELSE IF qo # "ok"
    THEN [raised |-> TRUE, exc |-> ExcOf(qo), results |-> {},
          requests |-> <<[req |-> "notion_query", out |-> qo]>>]
    ELSE [raised |-> FALSE, exc |-> "",
          results |-> {i \in DOMAIN st : PageMatches(st[i], filters, link, title)},
          requests |-> <<[req |-> "notion_query", out |-> qo]>>]

create_page(st, props, co) ==
    IF co # "ok"
    THEN [raised |-> TRUE, exc |-> ExcOf(co), store |-> st]
    ELSE [raised |-> FALSE, exc |-> "", store |-> Append(st, props)]

build_properties_from_offer(offer) ==
    LET title == IF Truthy(offer.title) THEN offer.title ELSE SansTitre
        company == IF Truthy(offer.company) THEN offer.company ELSE <<>>
        location == IF Truthy(offer.location) THEN offer.location ELSE <<>>
        source == IF Truthy(offer.source) THEN offer.source ELSE SourceDefault
    IN  ("Title" :> title) @@ ("Company" :> company) @@ ("Location" :> location)
        @@ (IF Truthy(offer.link) THEN ("Link" :> offer.link) ELSE EmptyProps)
        @@ (IF Truthy(offer.date) THEN ("Date" :> offer.date) ELSE EmptyProps)
        @@ ("Source" :> source)

\* mutant: the upsert catches the request's exception and returns status 'error'
upsert_offer_to_notion_catching(st, offer, qo, co) ==
    LET q == query_database_by_link_or_title(st, offer.link, offer.title, qo)
        props == build_properties_from_offer(offer)
        c == create_page(st, props, co)
        reqs == Append(q.requests, [req |-> "notion_create", out |-> co])
    IN  IF q.raised
        THEN [kind |-> "return", status |-> "error", exc |-> q.exc, matches |-> {},
              props |-> EmptyProps, requests |-> q.requests, store |-> st]
        ELSE IF q.results # {}
        THEN [kind |-> "return", status |-> "exists", exc |-> "", matches |-> q.results,
              props |-> EmptyProps, requests |-> q.requests, store |-> st]
        ELSE IF c.raised
        THEN [kind |-> "return", status |-> "error", exc |-> c.exc, matches |-> {},
              props |-> props, requests |-> reqs, store |-> st]
        ELSE [kind |-> "return", status |-> "created", exc |-> "", matches |-> {},
              props |-> props, requests |-> reqs, store |-> c.store]

\* a result is either returned (kind "return", status exists/created) or the
\* exception of the failed request leaves the function (kind "raise")
upsert_offer_to_notion(st, offer, qo, co) ==
    LET q == query_database_by_link_or_title(st, offer.link, offer.title, qo) IN
    IF q.raised
    THEN [kind |-> "raise", status |-> "", exc |-> q.exc, matches |-> {},
          props |-> EmptyProps, requests |-> q.requests, store |-> st]
    ELSE IF q.results # {}
    THEN [kind |-> "return", status |-> "exists", exc |-> "", matches |-> q.results,
          props |-> EmptyProps, requests |-> q.requests, store |-> st]
    ELSE LET props == build_properties_from_offer(offer)
             c == create_page(st, props, co)
             reqs == Append(q.requests, [req |-> "notion_create", out |-> co])
         IN  IF c.raised
             THEN [kind |-> "raise", status |-> "", exc |-> c.exc, matches |-> {},
                   props |-> props, requests |-> reqs, store |-> st]
             ELSE [kind |-> "return", status |-> "created", exc |-> "", matches |-> {},
                   props |-> props, requests |-> reqs, store |-> c.store]

\* ----------------------------------------------------------------- utils.py
RobotsOutcomes == {"allowed", "disallowed", "unreachable"}

\* True only when robots.txt was read and allows the path; False on any exception
check_robots_allowed(ro) == ro = "allowed"

MissingFile == [state |-> "missing", data |-> <<>>]
CorruptFile == [state |-> "corrupt", data |-> <<>>]

save_json(data) == [state |-> "ok", data |-> data]

\* a missing or unreadable file counts as the empty list
append_json(item, file) ==
    LET all_data == IF file.state = "ok" THEN file.data ELSE <<>>
    IN  [state |-> "ok", data |-> Append(all_data, item)]

\* ------------------------------------------------------------------ main.py
Str(v) == IF v = None THEN <<"N">> ELSE v
CvUrl(lang) == IF lang = "fr" THEN CV_FR_URL ELSE CV_ES_URL

fetch_search_page(fo, body) ==
    IF fo # "ok" THEN [none |-> TRUE, empty |-> TRUE, containers |-> <<>>]
    ELSE [none |-> FALSE, empty |-> body.empty, containers |-> body.containers]

\* `if not html`
HtmlFalsy(html) == html.none \/ html.empty

\* one item per container whose title text is non-empty
parse_search_results(html) ==
    LET kept == SelectSeq(html.containers, LAMBDA c : Truthy(c.title))
    IN  [i \in DOMAIN kept |->
            [title |-> kept[i].title, company |-> kept[i].company,
             location |-> kept[i].location, date |-> kept[i].date,
             link |-> kept[i].link, source |-> SourceTag]]

LlmOutcomes == {"ok", "fail"}

generate_cover_letter_basic(offer, lang, c, llm) ==
    IF c.openai /\ llm = "ok" THEN <<"L">>
    ELSE <<"B">> \o Str(offer.title) \o <<" ">> \o Str(offer.company)
         \o <<"(">> \o Str(CvUrl(lang)) \o <<")">>

AuthOutcomes == {"token", "no_token", "error"}

hello_authenticate_api(c, auth) ==
    IF ~c.user \/ ~c.pass THEN [token |-> None, requested |-> FALSE]
    ELSE [token |-> IF auth = "token" THEN Jwt ELSE None, requested |-> TRUE]

ats_submit_application(tok, offer, cover_text, cv_url, ao) ==
    IF ao = "ok" THEN [status |-> "submitted", error |-> ""]
    ELSE [status |-> "error", error |-> ExcOf(ao)]

Enriched(offer, cover, cv) ==
    [title |-> offer.title, company |-> offer.company, location |-> offer.location,
     date |-> offer.date, link |-> offer.link, source |-> offer.source,
     cover_letter |-> cover, cv_url |-> cv]

\* mutant: no try/except around the upsert, its exception leaves the function
prepare_and_save_offer_uncaught(offer, lang, c, st, rf, llm, qo, co) ==
    LET cover == generate_cover_letter_basic(offer, lang, c, llm)
        offer_copy == Enriched(offer, cover, CvUrl(lang))
        res == upsert_offer_to_notion(st, offer_copy, qo, co)
    IN  [raised |-> res.kind = "raise", offer_copy |-> offer_copy, res |-> res,
         store |-> res.store, appended |-> FALSE, resultsFile |-> rf,
         lastPrepared |-> IF res.kind = "raise" THEN MissingFile
                          ELSE save_json(<<offer_copy>>)]

\* `raised` tells whether an exception leaves the function: the try/except
\* around the upsert catches every Exception, so none does
prepare_and_save_offer(offer, lang, c, st, rf, llm, qo, co) ==
    LET cover == generate_cover_letter_basic(offer, lang, c, llm)
        offer_copy == Enriched(offer, cover, CvUrl(lang))
        res == upsert_offer_to_notion(st, offer_copy, qo, co)
    IN  [raised |-> FALSE, offer_copy |-> offer_copy, res |-> res, store |-> res.store,
         appended |-> res.kind = "raise",
         resultsFile |-> IF res.kind = "raise" THEN append_json(offer_copy, rf) ELSE rf,
         lastPrepared |-> save_json(<<offer_copy>>)]

\* the answer of a request that is not issued is not drawn
LlmChoices(c) == IF c.openai THEN LlmOutcomes ELSE {"fail"}

\* mutant: DRY_RUN is not consulted before authenticating
ShouldAuthenticate_ignoresDryRun(c) == c.user /\ c.pass
\* run(), line 222
ShouldAuthenticate(c) == c.user /\ c.pass /\ ~c.dry
\* run(), line 241
UseAts(tok, c) == Truthy(tok) /\ ~c.dry
\* mutant: a failed ATS submission is not prepared for manual send
AtsFallback_never(resp) == FALSE
\* run(), lines 245-250
AtsFallback(resp) == resp.status # "submitted"
\* mutant: offers without link are processed like the others
SkipOffer_never(o) == FALSE
\* run(), lines 235-236
SkipOffer(o) == ~Truthy(o.link)
\* mutant: a failed fetch ends the page loop (break instead of continue)
PageAfterFailedFetch_break(n, npages) == npages + 1
\* run(), lines 229-230: the page after a failed fetch of page n
PageAfterFailedFetch(n, npages) == n + 1
AtsChoices(tok, c) == IF UseAts(tok, c) THEN NetOutcomes ELSE {"ok"}
CreateChoices(st, offer, qo) ==
    IF query_database_by_link_or_title(st, offer.link, offer.title, qo).raised
       \/ query_database_by_link_or_title(st, offer.link, offer.title, qo).results # {}
    THEN {"ok"} ELSE NetOutcomes

\* ------------------------------------------------------------------- inputs
Configs == [dry : BOOLEAN, user : BOOLEAN, pass : BOOLEAN, openai : BOOLEAN]
\* run()'s lang_pref; the runs modelled keep its default
Langs == {"fr"}
\* what the selectors find in one offer container: no title tag (no title, no
\* link), a title tag with empty text, a title without href, titles with href
Container(title, link) ==
    [title |-> title, company |-> CompanyName, location |-> None,
     date |-> DateText, link |-> link]
Containers ==
    {Container(None, None), Container(<<>>, Link1), Container(<<"a">>, None),
     Container(<<"a", "b">>, Link1), Container(<<"a">>, Link2)}
Bodies ==
    {[empty |-> TRUE, containers |-> <<>>]}
    \cup {[empty |-> FALSE, containers |-> cs] : cs \in SeqsUpTo(Containers, MaxItems)}

UpsertTitles == {None, <<>>, <<"a">>, <<"a", "b">>}
UpsertOffers ==
    [title : UpsertTitles, company : {CompanyName}, location : {None},
     date : {DateText}, link : Links \cup {None}, source : {SourceTag},
     cover_letter : {<<"L">>}, cv_url : {CV_FR_URL}]

EmptyOffer ==
    [title |-> None, company |-> None, location |-> None, date |-> None,
     link |-> None, source |-> None]

\* -------------------------------------------------------------------- state
VARIABLES
    robots,           \* what the robots.txt check met ("unchecked" before it)
    cfg,              \* DRY_RUN, HELLOWORK_API_USER/PASS, OPENAI_API_KEY (set or not)
    pages, lang,      \* arguments of run()
    pc,               \* position of run(): start, auth, fetch, offers, done, aborted
    p,                \* loop variable of `for p in range(1, pages + 1)`
    items,            \* offers of the current page not yet processed
    offers_collected,
    token,
    retval,           \* what run() returned
    issued,           \* kinds of HTTP request issued so far
    fetchLog,         \* each call of fetch_search_page: its page, whether it gave markup
    extracted,        \* every offer parse_search_results emitted
    last,             \* what the offer loop did with the latest offer it kept: the ATS
                      \* answer, whether prepare_and_save_offer ran, how the upsert
                      \* ended, whether a Notion request failed
    store,            \* the Notion database: properties of each page, by creation
    resultsFile,      \* data/results.json
    lastPreparedFile, \* data/last_prepared_offer.json
    allOffersFile,    \* data/all_offers.json
    served,           \* offer containers the site has served during this run
    call              \* latest direct call of upsert_offer_to_notion

runVars == <<robots, cfg, pages, lang, pc, p, items, offers_collected, token, retval, issued,
             fetchLog, extracted, last, resultsFile, lastPreparedFile, allOffersFile,
             served>>
vars == <<robots, cfg, pages, lang, pc, p, items, offers_collected, token, retval, issued,
          fetchLog, extracted, last, store, resultsFile, lastPreparedFile,
          allOffersFile, served, call>>

NoCall ==
    [offer |-> EmptyOffer, kind |-> "init", status |-> "", exc |-> "",
     matches |-> {}, props |-> EmptyProps, requests |-> <<>>]
NoLast ==
    [offer |-> EmptyOffer, ats |-> "init", prepared |-> FALSE, kind |-> "none",
     status |-> "", failed |-> FALSE]

Init ==
    /\ robots = "unchecked"
    /\ cfg \in Configs
    /\ pages \in 1..MaxPages
    /\ lang \in Langs
    /\ pc = "start"
    /\ p = 1
    /\ items = <<>>
    /\ offers_collected = <<>>
    /\ token = None
    /\ retval = [kind |-> "running", value |-> <<>>]
    /\ issued = {}
    /\ fetchLog = <<>>
    /\ extracted = {}
    /\ last = NoLast
    /\ store = <<>>
    /\ resultsFile \in {MissingFile, CorruptFile}
    /\ lastPreparedFile = MissingFile
    /\ allOffersFile = MissingFile
    /\ served = 0
    /\ call = NoCall

\* run(), lines 216-218
RobotsCheck ==
    /\ pc = "start"
    /\ \E ro \in RobotsOutcomes :
        /\ robots' = ro
        /\ issued' = issued \cup {"robots"}
        /\ IF ~check_robots_allowed(ro)
           THEN /\ pc' = "done"
                /\ retval' = [kind |-> "None", value |-> <<>>]
           ELSE /\ pc' = "auth"
                /\ retval' = retval
    /\ UNCHANGED <<cfg, pages, lang, p, items, offers_collected, token, fetchLog,
                   extracted, last, store, resultsFile, lastPreparedFile,
                   allOffersFile, served, call>>

\* run(), lines 220-225
Authenticate ==
    /\ pc = "auth"
    /\ \E auth \in AuthOutcomes :
        IF ShouldAuthenticate(cfg)
        THEN LET a == hello_authenticate_api(cfg, auth)
             IN  /\ token' = a.token
                 /\ issued' = IF a.requested THEN issued \cup {"auth"} ELSE issued
        ELSE /\ token' = None
             /\ issued' = issued
    /\ pc' = "fetch"
    /\ p' = 1
    /\ UNCHANGED <<robots, cfg, pages, lang, items, offers_collected, retval, fetchLog,
                   extracted, last, store, resultsFile, lastPreparedFile,
                   allOffersFile, served, call>>

\* run(), lines 227-232: one iteration of the page loop up to the offer loop
FetchSearchPage ==
    /\ pc = "fetch"
    /\ p <= pages
    /\ \E fo \in NetOutcomes :
       \E body \in (IF fo = "ok" THEN Bodies ELSE {[empty |-> TRUE, containers |-> <<>>]}) :
        LET html == fetch_search_page(fo, body) IN
        /\ served + Len(html.containers) <= MaxContainers
        /\ served' = served + Len(html.containers)
        /\ fetchLog' = Append(fetchLog, [page |-> p, ok |-> ~HtmlFalsy(html)])
        /\ issued' = issued \cup {"search"}
        /\ IF HtmlFalsy(html)
           THEN /\ p' = PageAfterFailedFetch(p, pages)
                /\ UNCHANGED <<pc, items, extracted>>
           ELSE LET parsed == parse_search_results(html) IN
                /\ extracted' = extracted \cup Range(parsed)
                /\ items' = parsed
                /\ IF parsed = <<>>
                   THEN pc' = "fetch" /\ p' = p + 1
                   ELSE pc' = "offers" /\ p' = p
    /\ UNCHANGED <<robots, cfg, pages, lang, offers_collected, token, retval, last, store,
                   resultsFile, lastPreparedFile, allOffersFile, call>>

\* run(), lines 233-259: one iteration of the offer loop
ProcessOffer ==
    /\ pc = "offers"
    /\ items # <<>>
    /\ LET o == Head(items)
           rest == Tail(items)
           useAts == UseAts(token, cfg)
       IN
       IF SkipOffer(o)
       THEN /\ items' = rest
            /\ IF rest = <<>> THEN pc' = "fetch" /\ p' = p + 1 ELSE UNCHANGED <<pc, p>>
            /\ UNCHANGED <<offers_collected, issued, last, store, resultsFile,
                           lastPreparedFile>>
       ELSE \E llm1 \in LlmChoices(cfg), ao \in AtsChoices(token, cfg) :
            LET cover == generate_cover_letter_basic(o, lang, cfg, llm1)
                resp == IF useAts
                        THEN ats_submit_application(token, o, cover, CvUrl(lang), ao)
                        ELSE [status |-> "none", error |-> ""]
                doPrep == ~useAts \/ AtsFallback(resp)
            IN
            IF ~doPrep
            THEN /\ issued' = issued \cup (IF cfg.openai THEN {"llm"} ELSE {}) \cup {"submit"}
                 /\ last' = [offer |-> o, ats |-> resp.status, prepared |-> FALSE,
                             kind |-> "none", status |-> "", failed |-> FALSE]
                 /\ offers_collected' = Append(offers_collected, o)
                 /\ items' = rest
                 /\ IF rest = <<>> THEN pc' = "fetch" /\ p' = p + 1 ELSE UNCHANGED <<pc, p>>
                 /\ UNCHANGED <<store, resultsFile, lastPreparedFile>>
            ELSE \E llm2 \in LlmChoices(cfg), qo \in NetOutcomes :
                 \E co \in CreateChoices(store, o, qo) :
                 LET prep == prepare_and_save_offer(o, lang, cfg, store, resultsFile,
                                                    llm2, qo, co)
                 IN
                 /\ issued' = issued \cup (IF cfg.openai THEN {"llm"} ELSE {})
                                     \cup (IF useAts THEN {"submit"} ELSE {})
                                     \cup {r.req : r \in Range(prep.res.requests)}
                 /\ last' = [offer |-> o, ats |-> resp.status, prepared |-> TRUE,
                             kind |-> prep.res.kind, status |-> prep.res.status,
                             failed |-> \E r \in Range(prep.res.requests) : r.out # "ok"]
                 /\ store' = prep.store
                 /\ resultsFile' = prep.resultsFile
                 /\ lastPreparedFile' = prep.lastPrepared
                 /\ IF prep.raised
                    THEN /\ pc' = "aborted"
                         /\ UNCHANGED <<p, items, offers_collected>>
                    ELSE /\ offers_collected' = Append(offers_collected, o)
                         /\ items' = rest
                         /\ IF rest = <<>> THEN pc' = "fetch" /\ p' = p + 1
                            ELSE UNCHANGED <<pc, p>>
    /\ UNCHANGED <<robots, cfg, pages, lang, token, retval, fetchLog, extracted,
                   allOffersFile, served, call>>

\* run(), lines 261-267
Finish ==
    /\ pc = "fetch"
    /\ p > pages
    /\ allOffersFile' = save_json(offers_collected)
    /\ retval' = [kind |-> "list", value |-> offers_collected]
    /\ pc' = "done"
    /\ UNCHANGED <<robots, cfg, pages, lang, p, items, offers_collected, token, issued,
                   fetchLog, extracted, last, store, resultsFile, lastPreparedFile,
                   served, call>>

Next == RobotsCheck \/ Authenticate \/ FetchSearchPage \/ ProcessOffer \/ Finish

Spec == Init /\ [][Next]_vars

\* ------------------------------------- direct calls of upsert_offer_to_notion
InitUpsert ==
    /\ robots = "unchecked"
    /\ cfg = [dry |-> TRUE, user |-> FALSE, pass |-> FALSE, openai |-> FALSE]
    /\ pages = 1
    /\ lang = "fr"
    /\ pc = "start"
    /\ p = 1
    /\ items = <<>>
    /\ offers_collected = <<>>
    /\ token = None
    /\ retval = [kind |-> "running", value |-> <<>>]
    /\ issued = {}
    /\ fetchLog = <<>>
    /\ extracted = {}
    /\ last = NoLast
    /\ store = <<>>
    /\ resultsFile = MissingFile
    /\ lastPreparedFile = MissingFile
    /\ allOffersFile = MissingFile
    /\ served = 0
    /\ call = NoCall

UpsertCall ==
    /\ \E offer \in UpsertOffers, qo \in NetOutcomes :
       \E co \in CreateChoices(store, offer, qo) :
        LET r == upsert_offer_to_notion(store, offer, qo, co) IN
        /\ Len(r.store) <= MaxStore
        /\ store' = r.store
        /\ call' = [offer |-> offer, kind |-> r.kind, status |-> r.status,
                    exc |-> r.exc, matches |-> r.matches, props |-> r.props,
                    requests |-> r.requests]
    /\ UNCHANGED runVars

NextUpsert == UpsertCall

SpecUpsert == InitUpsert /\ [][NextUpsert]_vars

\* ------------------------------------------------------------------- claims
LinkKnown(st, link) ==
    \E i \in DOMAIN st : "Link" \in DOMAIN st[i] /\ st[i]["Link"] = link
TitleKnown(st, title) ==
    \E i \in DOMAIN st : Contains(st[i]["Title"], title)
CreateRequested(c) == \E r \in Range(c.requests) : r.req = "notion_create"
RequestFailed(c) == \E r \in Range(c.requests) : r.out # "ok"
RobotsRefused == robots \in {"disallowed", "unreachable"}
LinkBearing(S) == {o \in S : Truthy(o.link)}
IsCopyOf(copy, o) ==
    /\ copy.title = o.title /\ copy.link = o.link /\ copy.company = o.company
    /\ copy.location = o.location /\ copy.date = o.date /\ copy.source = o.source
OfferTaken == offers_collected' # offers_collected

\* C1: once a page with a link is in the store, no later upsert of an offer
\* with that link creates a page or sends a create request, and a call that
\* returns says 'exists'; a 'created' offer's link is in the store; the store
\* never holds two pages with the same link.
C1_OnePagePerLink ==
    /\ [](\A i, j \in DOMAIN store :
            (i # j /\ "Link" \in DOMAIN store[i] /\ "Link" \in DOMAIN store[j])
                => store[i]["Link"] # store[j]["Link"])
    /\ []((call.status = "created" /\ Truthy(call.offer.link))
            => LinkKnown(store, call.offer.link))
    /\ [][(Truthy(call'.offer.link) /\ LinkKnown(store, call'.offer.link))
            => /\ store' = store
               /\ call'.status # "created"
               /\ ~CreateRequested(call')
               /\ (call'.kind = "return" => call'.status = "exists")]_vars

C1_Witness ==
    /\ call.kind = "return" /\ call.status = "exists"
    /\ Truthy(call.offer.link) /\ LinkKnown(store, call.offer.link)
    /\ Len(store) = MaxStore

\* C7 as claimed: with a link present only the Link field decides; an offer
\* whose link is on no page is reported 'created' whatever the titles are.
C7_LinkAloneDecides ==
    [][(Truthy(call'.offer.link) /\ call'.kind = "return"
        /\ ~LinkKnown(store, call'.offer.link))
            => call'.status = "created"]_vars

\* C7 amended: the query ORs both filters; a returning upsert says 'exists'
\* exactly when some page has the offer's link (link present) or a title that
\* contains the offer's title (title present), and 'created' otherwise.
C7_LinkOrTitleDecides ==
    [][call'.kind = "return"
        => /\ call'.status \in {"exists", "created"}
           /\ call'.status = "exists"
                <=> \/ Truthy(call'.offer.link) /\ LinkKnown(store, call'.offer.link)
                    \/ Truthy(call'.offer.title) /\ TitleKnown(store, call'.offer.title)
           /\ call'.status = "created"
                => /\ store' = Append(store, build_properties_from_offer(call'.offer))
                   /\ CreateRequested(call')]_vars

C7_Witness ==
    /\ call.kind = "return" /\ call.status = "exists"
    /\ Truthy(call.offer.link) /\ ~LinkKnown(store, call.offer.link)
    /\ TitleKnown(store, call.offer.title)

\* C8 as claimed: a failed query or create makes the upsert return a result
\* with status 'error'.
C8_ReturnsError ==
    RequestFailed(call) => (call.kind = "return" /\ call.status = "error")

\* C8 amended: a failed query or create makes the upsert raise the request's
\* exception to its caller; what it returns is only ever 'exists' or 'created',
\* and then no request failed.
C8_RaisesToCaller ==
    /\ RequestFailed(call)
        => /\ call.kind = "raise"
           /\ call.exc = ExcOf(Last(call.requests).out)
    /\ call.kind = "raise" => RequestFailed(call)
    /\ call.kind = "return" => call.status \in {"exists", "created"}

C8_Witness ==
    /\ call.kind = "raise"
    /\ Len(call.requests) = 2
    /\ call.requests[1].out = "ok"

\* C2: when a Notion request fails while an offer is prepared, the enriched
\* offer is the newest entry of data/results.json, the offer is collected and
\* the run is not aborted: it stands at the next offer, the next page or the end.
C2_FailureFallsBack ==
    /\ pc # "aborted"
    /\ (last.prepared /\ last.failed)
        => /\ last.kind = "raise"
           /\ resultsFile.state = "ok"
           /\ resultsFile.data # <<>>
           /\ IsCopyOf(Last(resultsFile.data), last.offer)
           /\ offers_collected # <<>>
           /\ Last(offers_collected) = last.offer
           /\ pc \in {"offers", "fetch", "done"}
           /\ (pc = "done" => Len(fetchLog) = pages)

C2_Witness ==
    /\ pc = "done" /\ last.prepared /\ last.failed
    /\ Len(resultsFile.data) = 2
    /\ Len(offers_collected) = 2

\* C3 as claimed: when robots.txt refuses (or cannot be read) run() returns an
\* empty result set, fetches no page and issues no request but the robots one.
C3_RefusedReturnsEmpty ==
    (pc = "done" /\ RobotsRefused)
        => /\ retval = [kind |-> "list", value |-> <<>>]
           /\ fetchLog = <<>>
           /\ issued = {"robots"}

\* C4: the pages fetched are 1, 2, ... in order, each once; a failed fetch
\* does not end the run; at the end of an allowed run every page 1..pages was
\* fetched and the collected offers are the link-bearing offers of the pages
\* that were fetched successfully; the page loop can always take its next
\* step and the offer loop always stands at an offer.
C4_EveryPageFetched ==
    /\ \A i \in DOMAIN fetchLog : fetchLog[i].page = i
    /\ Len(fetchLog) <= pages
    /\ pc # "aborted"
    /\ pc = "fetch" => ENABLED (FetchSearchPage \/ Finish)
    /\ pc = "offers" => items # <<>>
    /\ (pc = "done" /\ robots = "allowed")
        => /\ Len(fetchLog) = pages
           /\ retval = [kind |-> "list", value |-> offers_collected]
           /\ Range(offers_collected) = LinkBearing(extracted)

C4_Witness ==
    /\ pc = "done" /\ pages = 2 /\ Len(fetchLog) = 2
    /\ ~fetchLog[1].ok /\ fetchLog[2].ok
    /\ offers_collected # <<>>

\* C5: under DRY_RUN no authentication and no submission request is issued
\* and every offer kept went through prepare_and_save_offer; a submission is
\* issued only with both credentials, DRY_RUN false and a token.
C5_DryRunNeverSubmits ==
    /\ cfg.dry
        => /\ "auth" \notin issued
           /\ "submit" \notin issued
           /\ token = None
           /\ (last.ats # "init" => (last.ats = "none" /\ last.prepared))
    /\ "auth" \in issued => (cfg.user /\ cfg.pass /\ ~cfg.dry)
    /\ "submit" \in issued => (cfg.user /\ cfg.pass /\ ~cfg.dry /\ Truthy(token))

C5_Witness ==
    /\ pc = "done" /\ cfg.dry /\ cfg.user /\ cfg.pass
    /\ last.prepared /\ Len(offers_collected) = 2

\* C6 as claimed: an extracted offer without link still ends in the batch
\* backup (data/all_offers.json and run()'s result).
C6_LinklessRetained ==
    (pc = "done" /\ retval.kind = "list")
        => \A o \in extracted :
              ~Truthy(o.link)
                => (o \in Range(allOffersFile.data) /\ o \in Range(retval.value))

\* C6 amended: an offer without link is skipped altogether: it reaches neither
\* Notion, nor the fallback file, nor offers_collected; the batch backup and
\* run()'s result hold exactly the link-bearing offers.
C6_LinklessSkipped ==
    /\ \A o \in Range(offers_collected) : Truthy(o.link)
    /\ \A i \in DOMAIN store : "Link" \in DOMAIN store[i]
    /\ \A i \in DOMAIN resultsFile.data : Truthy(resultsFile.data[i].link)
    /\ last.ats # "init" => Truthy(last.offer.link)
    /\ (pc = "done" /\ retval.kind = "list")
        => /\ retval.value = offers_collected
           /\ allOffersFile = [state |-> "ok", data |-> offers_collected]
           /\ Range(offers_collected) = LinkBearing(extracted)

C6_Witness ==
    /\ pc = "done" /\ retval.kind = "list"
    /\ offers_collected # <<>>
    /\ \E o \in extracted : ~Truthy(o.link)

\* C9 as claimed: the page created for an offer carries, besides Title,
\* Company, Location, Link, Date and Source, the cover letter, the CV URL and
\* the Status.
C9_CreatedCarriesAllFields ==
    (last.prepared /\ last.status = "created")
        => {"Title", "Company", "Location", "Link", "Date", "Source",
            "CoverLetter", "CV", "Status"} \subseteq DOMAIN Last(store)

\* C10: each offer the loop keeps is either submitted by the ATS API or handed
\* to prepare_and_save_offer, never both and never neither: a failed
\* submission is prepared, a successful one touches neither Notion nor the
\* local files.
C10_SubmitXorPrepare ==
    /\ [](last.ats # "init"
            => /\ last.ats \in {"none", "submitted", "error"}
               /\ last.prepared <=> last.ats # "submitted"
               /\ last.ats = "submitted" => (last.kind = "none" /\ Truthy(token))
               /\ last.prepared => last.kind \in {"return", "raise"}
               /\ Last(offers_collected) = last.offer)
    /\ [][OfferTaken
            => /\ last'.offer = Head(items)
               /\ offers_collected' = Append(offers_collected, Head(items))
               /\ last'.ats = "submitted"
                    => /\ "submit" \in issued'
                       /\ UNCHANGED <<store, resultsFile, lastPreparedFile>>
               /\ last'.ats # "submitted"
                    => /\ last'.prepared
                       /\ "notion_query" \in issued'
                       /\ lastPreparedFile'.state = "ok"
                       /\ IsCopyOf(lastPreparedFile'.data[1], Head(items))]_vars

C10_Witness ==
    /\ last.ats = "error" /\ last.prepared
    /\ Len(offers_collected) = 2
    /\ offers_collected[1] = offers_collected[2]

====
